---- MODULE Spec2Model ----
(***************************************************************************)
(* RGlob: a glob pattern compiler and matcher over UTF-8 text.             *)
(*                                                                         *)
(* Text is modelled as sequences of bytes (naturals 0..255); positions are *)
(* 1-based, so a C++ offset o is the position o + 1.  The compiler is      *)
(* modelled by operators that compute the program buffer (fsm) exactly as  *)
(* the code emits it; the matcher is a step machine with one step per      *)
(* iteration of the dispatch loop of matcher::match.                        *)
(***************************************************************************)
EXTENDS Integers, Sequences, FiniteSets, TLC

(***************************************************************************)
(* Program constants and the characters the code names.                    *)
(***************************************************************************)
LengthSize == 2
AllowedMaxFSM == 4095

ChNul == 0
ChBang == 33
ChHash == 35
ChStar == 42
ChPlus == 43
ChMinus == 45
ChEq == 61
ChQuest == 63
ChOpen == 91
ChClose == 93
ChCaret == 94
ChPad == 95
ChBrace == 123

SetMin(S) == CHOOSE x \in S : \A y \in S : x <= y

(***************************************************************************)
(* UTF-8 helpers (rglob.h).                                                *)
(***************************************************************************)
\* isascii(c): the value is below 128 (bytes are taken as unsigned values).
isascii(c) == c < 128

\* The 256-entry table of sizeOfUTF8CodePoint, indexed by c & 0xff.
sizeOfUTF8CodePoint(c) ==
    LET b == c % 256
    IN  IF b < 128 THEN 1
        ELSE IF b < 192 THEN 0
        ELSE IF b < 224 THEN 2
        ELSE IF b < 240 THEN 3
        ELSE IF b < 248 THEN 4
        ELSE 0

\* (c & 0b11000000) == 0b10000000
IsFollowing(c) == c >= 128 /\ c < 192

\* The byte of s at position i; NUL where the position is not inside s.
ByteAt(s, i) == IF i >= 1 /\ i <= Len(s) THEN s[i] ELSE ChNul

\* validateUTF8String.  The loop of the code goes from code point to code
\* point and returns false at a lead byte of size 0 (case 0), at a byte after
\* a lead byte that is not a following byte, and at a sequence that the end
\* of the text cuts short.  A following byte where a code point should start
\* has size 0, so the loop stands on exactly the bytes that are not following
\* bytes, and it returns true if and only if
\*   - each of them has a size n >= 1 and n - 1 following bytes behind it, and
\*   - each following byte is one of those n - 1 bytes of a lead byte.
validateUTF8String(v) ==
    \A i \in 1..Len(v) :
        IF IsFollowing(v[i])
        THEN \E d \in 1..3 :
                /\ i - d >= 1
                /\ sizeOfUTF8CodePoint(v[i - d]) > d
                /\ \A e \in 1..(d - 1) : IsFollowing(v[i - e])
        ELSE /\ sizeOfUTF8CodePoint(v[i]) >= 1
             /\ \A k \in 1..(sizeOfUTF8CodePoint(v[i]) - 1) :
                    i + k <= Len(v) /\ IsFollowing(v[i + k])

\* The loop of validateUTF8String with the iterator at position i: case 0,
\* case 1, and the default case, whose inner loop reads the following bytes
\* that the text still holds (at most n - 1) and which returns false as well
\* when the text ends before all n - 1 were read.
RECURSIVE validateFrom(_, _)

\* The loop without its last test: a unit that the end of the text cuts off
\* is let through.
RECURSIVE validateFromKeepsCutOff(_, _)
validateFromKeepsCutOff(v, i) ==
    IF i > Len(v) THEN TRUE
    ELSE IF sizeOfUTF8CodePoint(v[i]) = 0 THEN FALSE
    ELSE IF \E k \in 1..(sizeOfUTF8CodePoint(v[i]) - 1) :
                i + k <= Len(v) /\ ~IsFollowing(v[i + k]) THEN FALSE
    ELSE validateFromKeepsCutOff(v, i + sizeOfUTF8CodePoint(v[i]))

validateFrom(v, i) ==
    IF i > Len(v) THEN TRUE
    ELSE IF sizeOfUTF8CodePoint(v[i]) = 0 THEN FALSE
    ELSE IF sizeOfUTF8CodePoint(v[i]) = 1 THEN validateFrom(v, i + 1)
    ELSE LET n == sizeOfUTF8CodePoint(v[i])
             read == IF Len(v) - i < n - 1 THEN Len(v) - i ELSE n - 1
         IN  IF \E k \in 1..read : ~IsFollowing(v[i + k]) THEN FALSE
             ELSE IF read < n - 1 THEN FALSE
             ELSE validateFrom(v, i + n)

\* An encoder whose three-byte form reaches one code point too far: U+10000
\* is written in three bytes.
codePointToUTF8LateFourBytes(c) ==
    IF c < 128 THEN <<c>>
    ELSE IF c < 2048 THEN <<192 + (c \div 64), 128 + (c % 64)>>
    ELSE IF c <= 65536 THEN
        <<224 + (c \div 4096), 128 + ((c \div 64) % 64), 128 + (c % 64)>>
    ELSE <<(240 + (c \div 262144)) % 256, 128 + ((c \div 4096) % 64),
           128 + ((c \div 64) % 64), 128 + (c % 64)>>

\* codePointToUTF8: the bytes emitted for code point c.
codePointToUTF8(c) ==
    IF c < 128 THEN <<c>>
    ELSE IF c < 2048 THEN <<192 + (c \div 64), 128 + (c % 64)>>
    ELSE IF c < 65536 THEN
        <<224 + (c \div 4096), 128 + ((c \div 64) % 64), 128 + (c % 64)>>
    ELSE <<(240 + (c \div 262144)) % 256, 128 + ((c \div 4096) % 64),
           128 + ((c \div 64) % 64), 128 + (c % 64)>>

\* basic_utf8iterator::codePointFromUTF8 on the bytes b0 b1 b2 b3 at the iterator.
codePointFromBytes(b0, b1, b2, b3) ==
    LET n == sizeOfUTF8CodePoint(b0)
    IN  IF n = 1 THEN b0
        ELSE IF n = 2 THEN (b0 % 32) * 64 + (b1 % 64)
        ELSE IF n = 3 THEN (b0 % 16) * 4096 + (b1 % 64) * 64 + (b2 % 64)
        ELSE IF n = 4 THEN
            (b0 % 8) * 262144 + (b1 % 64) * 4096 + (b2 % 64) * 64 + (b3 % 64)
        ELSE 0

\* operator* of a utf8iterator at position i of s.
codePointFromUTF8(s, i) ==
    codePointFromBytes(ByteAt(s, i), ByteAt(s, i + 1), ByteAt(s, i + 2), ByteAt(s, i + 3))

\* operator++ of a utf8iterator at position i of s.
Advance(s, i) == i + sizeOfUTF8CodePoint(ByteAt(s, i))

(***************************************************************************)
(* Digits of the compiled form.                                            *)
(***************************************************************************)
\* "ABC...Zabc...z0123456789+/"[n & 0x3f]
base64Digit(n) ==
    LET k == n % 64
    IN  IF k < 26 THEN 65 + k
        ELSE IF k < 52 THEN 97 + (k - 26)
        ELSE IF k < 62 THEN 48 + (k - 52)
        ELSE IF k = 62 THEN 43
        ELSE 47

\* The 128-entry table of matcher::base64Value, indexed by c & 0x7f.
base64Value(c) ==
    LET k == c % 128
    IN  IF k = 43 THEN 62
        ELSE IF k = 47 THEN 63
        ELSE IF k >= 48 /\ k <= 57 THEN 52 + (k - 48)
        ELSE IF k >= 65 /\ k <= 90 THEN k - 65
        ELSE IF k >= 97 /\ k <= 122 THEN 26 + (k - 97)
        ELSE 0

\* "0123456789abcdef"[n & 0xf]
hexDigit(n) ==
    LET k == n % 16
    IN  IF k < 10 THEN 48 + k ELSE 97 + (k - 10)

\* The 128-entry table of matcher::hexValue, indexed by c & 0x7f.
hexValue(c) ==
    LET k == c % 128
    IN  IF k >= 48 /\ k <= 57 THEN k - 48
        ELSE IF k >= 65 /\ k <= 70 THEN 10 + (k - 65)
        ELSE IF k >= 97 /\ k <= 102 THEN 10 + (k - 97)
        ELSE 0

\* compiler::emitLengthAt; i is the position of the first digit.
\* (n & 0xfc) >> 6 keeps bits 6 and 7 of n only.
emitLengthAt(f, i, n) ==
    [f EXCEPT ![i] = base64Digit((n \div 64) % 4),
              ![i + 1] = base64Digit(n % 64)]

\* matcher::decodeLengthAt on the bytes of f at positions i and i + 1.
decodeLengthAt(f, i) == base64Value(ByteAt(f, i)) * 64 + base64Value(ByteAt(f, i + 1))

\* matcher::decodeModifierAt
decodeModifierAt(f, i) == hexValue(ByteAt(f, i))

\* compiler::emitPadding(LengthSize)
emitPadding(f) == f \o <<ChPad, ChPad>>

\* compiler::emitPackedBitset; b is the set of the bits that are set.
emitPackedBitset(f, b) ==
    f \o [k \in 1..32 |->
            LET c == 128 - 4 * k
            IN  hexDigit((IF c \in b THEN 1 ELSE 0) + (IF (c + 1) \in b THEN 2 ELSE 0)
                       + (IF (c + 2) \in b THEN 4 ELSE 0) + (IF (c + 3) \in b THEN 8 ELSE 0))]

\* A mask table in the reverse order: "\1\2\4\x8"[(127 - b) & 0b11].
packedBitsetMaskReversed(b) ==
    LET k == (127 - b) % 4
    IN  IF k = 0 THEN 1 ELSE IF k = 1 THEN 2 ELSE IF k = 2 THEN 4 ELSE 8

\* "\x8\4\2\1"[(127 - b) & 0b11]
packedBitsetMask(b) ==
    LET k == (127 - b) % 4
    IN  IF k = 0 THEN 8 ELSE IF k = 1 THEN 4 ELSE IF k = 2 THEN 2 ELSE 1

\* hexValue of the digit that holds bit b; i is the position of the first digit.
packedBitsetNibbleAt(f, i, b) == hexValue(ByteAt(f, i + ((127 - b) \div 4)))

\* (nibble & mask) != 0, the mask being a single bit.
testPackedBitsetAt(f, i, b) ==
    (packedBitsetNibbleAt(f, i, b) \div packedBitsetMask(b)) % 2 = 1

\* std::bitset::flip applied to every position of cs.
Flip(b, cs) == (b \ cs) \cup (cs \ b)

(***************************************************************************)
(* The compiler (RGlobCore.cpp).  An operator that compiles an element     *)
(* returns the buffer after its emissions, the pattern bytes it consumed   *)
(* (incr) and the exception it threw ("none" when it returned); with an    *)
(* exception comes the position (at) of the pattern suffix that its message *)
(* quotes, 0 when the message quotes none.                                 *)
(***************************************************************************)
Positions(pattern, from, chars) == {k \in from..Len(pattern) : pattern[k] \in chars}

\* The member loop of the fast path: the bitset after the flips of the members
\* from position p up to the closing bracket.  In a range that ends at 127 the
\* loop variable (a signed char) passes 127 and bitset::flip throws out_of_range.
RECURSIVE fastMembers(_, _, _)
fastMembers(pattern, p, b) ==
    IF ByteAt(pattern, p) = ChClose THEN [b |-> b, err |-> "none"]
    ELSE IF ByteAt(pattern, p + 1) = ChMinus /\ ByteAt(pattern, p + 2) # ChClose
    THEN IF ByteAt(pattern, p) <= ByteAt(pattern, p + 2) /\ ByteAt(pattern, p + 2) = 127
         THEN [b |-> Flip(b, ByteAt(pattern, p)..127), err |-> "out_of_range"]
         ELSE fastMembers(pattern, p + 3,
                          Flip(b, ByteAt(pattern, p)..ByteAt(pattern, p + 2)))
    ELSE fastMembers(pattern, p + 1, Flip(b, {ByteAt(pattern, p)}))

\* The member loop of the general path: the buffer after the operators of the
\* members from position u on, and the position of the code point that ended
\* the loop (the one that decodes to the closing bracket).  u1 and u2 are the
\* positions of the next two code points.
RECURSIVE generalMembers(_, _, _)
memberAt(pattern, u, u1, u2, f) ==
    IF codePointFromUTF8(pattern, u1) = ChMinus /\ codePointFromUTF8(pattern, u2) # ChClose
    THEN generalMembers(pattern, Advance(pattern, u2),
             f \o <<ChMinus>> \o codePointToUTF8(codePointFromUTF8(pattern, u))
               \o codePointToUTF8(codePointFromUTF8(pattern, u2)))
    ELSE generalMembers(pattern, u1,
             f \o <<ChPlus>> \o codePointToUTF8(codePointFromUTF8(pattern, u)))

generalMembers(pattern, u, f) ==
    IF codePointFromUTF8(pattern, u) = ChClose THEN [fsm |-> f, u |-> u]
    ELSE memberAt(pattern, u, Advance(pattern, u), Advance(pattern, Advance(pattern, u)), f)

\* The fast path of compileClass once the member loop has ended with m: the
\* packed bitset follows the opcode, unless bitset::flip threw.
fastClass(p, f, close, m) ==
    IF m.err # "none"
    THEN [fsm |-> f \o <<ChBrace>>, incr |-> 0, err |-> m.err, at |-> 0]
    ELSE [fsm |-> emitPackedBitset(f \o <<ChBrace>>, m.b),
          incr |-> (close + 1) - p, err |-> "none"]

\* The general path of compileClass once the member loop has ended with m: the
\* sentinel is emitted and the length of the operators is backfilled.
generalClass(pattern, p, pos, m) ==
    [fsm |-> emitLengthAt(m.fsm \o <<ChClose>>, pos + 3,
                          (Len(m.fsm) + 1) - pos - (1 + 1 + LengthSize + 1)),
     incr |-> Advance(pattern, m.u) - p, err |-> "none"]

\* A compileClass that looks for the terminator without stepping over a
\* leading ']': the class "[]" is taken as terminated.
compileClassKeepsLeadingClose(pattern, p, f) ==
    LET invert == ByteAt(pattern, p + 1) \in {ChBang, ChCaret}
        p3 == IF invert THEN p + 2 ELSE p + 1
        closes == Positions(pattern, p3, {ChClose})
    IN  IF closes = {}
        THEN [fsm |-> f, incr |-> 0, err |-> "MissingClassTerminator", at |-> p]
        ELSE IF \A k \in p3..(SetMin(closes) - 1) : isascii(pattern[k])
        THEN fastClass(p, f, SetMin(closes),
                 fastMembers(pattern, p3, IF invert THEN 0..127 ELSE {}))
        ELSE generalClass(pattern, p, Len(f),
                 generalMembers(pattern, p3,
                     emitPadding(f \o <<ChOpen, hexDigit(IF invert THEN 1 ELSE 0)>>)))

\* std::string::clear that leaves the buffer as it is.
clearKeeps(f) == f

\* compiler::compileClass; p is the position of the opening bracket.
compileClass(pattern, p, f) ==
    LET invert == ByteAt(pattern, p + 1) \in {ChBang, ChCaret}
        p2 == IF invert THEN p + 2 ELSE p + 1
        leadingCloseBracket == ByteAt(pattern, p2) = ChClose
        p3 == IF leadingCloseBracket THEN p2 + 1 ELSE p2
        closes == Positions(pattern, p3, {ChClose})
    IN  IF closes = {}
        THEN [fsm |-> f, incr |-> 0, err |-> "MissingClassTerminator", at |-> p]
        ELSE IF \A k \in p3..(SetMin(closes) - 1) : isascii(pattern[k])
        THEN fastClass(p, f, SetMin(closes),
                 fastMembers(pattern, p3,
                     IF leadingCloseBracket
                     THEN Flip(IF invert THEN 0..127 ELSE {}, {ChClose})
                     ELSE IF invert THEN 0..127 ELSE {}))
        ELSE generalClass(pattern, p, Len(f),
                 generalMembers(pattern, p3,
                     emitPadding(f \o <<ChOpen, hexDigit(IF invert THEN 1 ELSE 0)>>)
                         \o (IF leadingCloseBracket THEN <<ChPlus, ChClose>> ELSE <<>>)))

\* The length of the literal run that starts at position p: up to the next
\* meta character (find_first_of) or to the end of the pattern.
runLength(pattern, p, metas) ==
    IF metas # {} THEN SetMin(metas) - p ELSE Len(pattern) + 1 - p

\* compiler::compileString for a run of n bytes at position p.
emitString(pattern, p, f, n) ==
    [fsm |-> emitLengthAt(emitPadding(f \o <<ChEq>>) \o SubSeq(pattern, p, p + n - 1),
                          Len(f) + 2, n),
     incr |-> n, err |-> "none"]

\* compiler::compileString; p is the position of the first byte of the run.
compileString(pattern, p, f) ==
    emitString(pattern, p, f,
               runLength(pattern, p, Positions(pattern, p, {ChQuest, ChStar, ChOpen})))

\* One pass of the element loop of compiler::compile: the element at pi.
compileElement(pattern, pi, f) ==
    IF pattern[pi] \in {ChQuest, ChStar}
    THEN [fsm |-> f \o <<pattern[pi]>>, incr |-> 1, err |-> "none"]
    ELSE IF pattern[pi] = ChOpen THEN compileClass(pattern, pi, f)
    ELSE compileString(pattern, pi, f)

\* The element loop of compiler::compile with its size check: compileFrom
\* compiles the element at pi, elementDone goes on from its result r.
RECURSIVE compileFrom(_, _, _)

\* A size check that is off by one: it lets AllowedMaxFSM + 1 bytes pass.
elementDoneOffByOne(pattern, pi, r) ==
    IF r.err # "none" THEN [fsm |-> r.fsm, err |-> r.err, at |-> r.at]
    ELSE IF Len(r.fsm) > AllowedMaxFSM + 1
    THEN [fsm |-> r.fsm, err |-> "PatternTooLarge", at |-> pi]
    ELSE compileFrom(pattern, pi + r.incr, r.fsm)

elementDone(pattern, pi, r) ==
    IF r.err # "none" THEN [fsm |-> r.fsm, err |-> r.err, at |-> r.at]
    ELSE IF Len(r.fsm) > AllowedMaxFSM
    THEN [fsm |-> r.fsm, err |-> "PatternTooLarge", at |-> pi]
    ELSE compileFrom(pattern, pi + r.incr, r.fsm)

compileFrom(pattern, pi, f) ==
    IF pi > Len(pattern) THEN [fsm |-> f, err |-> "none"]
    ELSE elementDone(pattern, pi, compileElement(pattern, pi, f))

\* An end of compile that backfills the length in every case and never
\* clears the buffer: a program that is only the header is kept.
compileDoneKeepsHeader(r) ==
    IF r.err # "none" THEN r
    ELSE [fsm |-> emitLengthAt(r.fsm, 2, Len(r.fsm) - (1 + LengthSize)), err |-> "none"]

\* The end of compiler::compile once the element loop has ended with r: the
\* length of the program is backfilled, or the buffer is cleared when only the
\* header was emitted.
compileDone(r) ==
    IF r.err # "none" THEN r
    ELSE IF Len(r.fsm) > 1 + LengthSize
    THEN [fsm |-> emitLengthAt(r.fsm, 2, Len(r.fsm) - (1 + LengthSize)), err |-> "none"]
    ELSE [fsm |-> <<>>, err |-> "none"]

\* std::string::clear on the buffer.
clear(f) == <<>>

\* compiler::compile on an instance whose buffer holds old: the buffer it
\* leaves and the exception it throws ("none" for a normal return).
compile(pattern, old) ==
    IF ~validateUTF8String(pattern)
    THEN [fsm |-> old, err |-> "InvalidUTF8Pattern", at |-> 0]
    ELSE compileDone(compileFrom(pattern, 1, emitPadding(clear(old) \o <<ChHash>>)))

(***************************************************************************)
(* State of a glob object and of the match call in progress.               *)
(***************************************************************************)
VARIABLES
    pattern,    \* the argument of the latest compile call
    fsm,        \* compiler::fsm, the program buffer the matcher reads
    cstat,      \* how the latest compile call ended ("fresh" before any call)
    cwhat,      \* the pattern suffix quoted by the message of its exception
    moved,      \* the buffer outgrew the storage reserved by the constructor,
                \* which is where the matcher of the glob object still points
    mpc,        \* "idle", or "run"/"done" for the match call in progress
    target,     \* the argument of the match call
    pad,        \* the byte found just past the end of the target
    mi,         \* position of the instruction pointer in fsm
    ti,         \* position of the cursor in target
    anchored,   \* locals of matcher::match
    invert,
    next,
    last,       \* cend() as computed at the start of the loop
    mres,       \* what the match call returned or threw
    hits,       \* code points consumed by class operators since the latest
                \* class header was dispatched (history variable)
    other,      \* a second match call on the same object: its target, its
                \* locals and its result
    probe       \* a helper function applied on its own: its name, its
                \* argument and its value

vars == <<pattern, fsm, cstat, cwhat, moved, mpc, target, pad, mi, ti, anchored, invert,
          next, last, mres, hits, other, probe>>

cvars == <<pattern, fsm, cstat, cwhat, moved>>

\* What the actions of the object and of its first match call leave alone.
xvars == <<other, probe>>

(***************************************************************************)
(* The matcher (RGlobCore.cpp, rglob.h).                                   *)
(***************************************************************************)
\* strlen of the buffer seen as a C string.
strlen(f) ==
    LET nuls == Positions(f, 1, {ChNul})
    IN  IF nuls = {} THEN Len(f) ELSE SetMin(nuls) - 1

\* matcher::cend as a position in f (cbegin is position 1).
cend(f) ==
    1 + (IF ByteAt(f, 1) = ChHash THEN 1 + LengthSize + decodeLengthAt(f, 2)
         ELSE strlen(f))

\* The byte a read of the target at position i yields: the target's byte, or
\* just past its end whatever the memory holds there (pad).
TargetAt(t, pd, i) == IF i >= 1 /\ i <= Len(t) THEN t[i] ELSE pd

\* operator* and operator++ of the cursor.
targetCodePoint(t, pd, i) ==
    codePointFromBytes(TargetAt(t, pd, i), TargetAt(t, pd, i + 1),
                       TargetAt(t, pd, i + 2), TargetAt(t, pd, i + 3))

targetAdvance(t, pd, i) == i + sizeOfUTF8CodePoint(TargetAt(t, pd, i))

\* std::find_if(ti, utf8iterator(target.cend()), pred): the position of the
\* first code point from i on that satisfies the predicate, or the end
\* position; sat is the set of positions of t whose code point satisfies it.
\* The iterator steps over the code points of the (valid) target, which start
\* at the bytes that are not following bytes.
find_if(t, i, sat) ==
    LET found == {k \in i..Len(t) : ~IsFollowing(t[k]) /\ k \in sat}
    IN  IF found = {} THEN Len(t) + 1 ELSE SetMin(found)

\* A search that returns the last occurrence instead of the first.
findLast(t, i, f, s, n) ==
    LET at == {k \in i..(Len(t) + 1 - n) :
                    \A d \in 0..(n - 1) : t[k + d] = ByteAt(f, s + d)}
    IN  IF i > Len(t) + 1 \/ at = {} THEN 0 ELSE CHOOSE k \in at : \A j \in at : j <= k

\* std::string_view::find(s, o, n) for the n bytes at position s of f, searched
\* from position i of t: the position found, or 0 for npos.
find(t, i, f, s, n) ==
    LET at == {k \in i..(Len(t) + 1 - n) :
                    \A d \in 0..(n - 1) : t[k + d] = ByteAt(f, s + d)}
    IN  IF i > Len(t) + 1 \/ at = {} THEN 0 ELSE SetMin(at)

\* The locals of a match call as a record.
Locals(m, t, a, iv, nx) == [mi |-> m, ti |-> t, anchored |-> a, invert |-> iv, next |-> nx]

\* The positions up to which the instruction at m reads the program.
InstructionEnd(f, m) ==
    LET op == ByteAt(f, m)
        m1 == m + 1
    IN  IF op = ChOpen THEN m1 + LengthSize
        ELSE IF op = ChBrace THEN m1 + 31
        ELSE IF op = ChPlus THEN Advance(f, m1) - 1
        ELSE IF op = ChMinus THEN Advance(f, Advance(f, m1)) - 1
        ELSE IF op = ChEq THEN m1 + LengthSize + decodeLengthAt(f, m1) - 1
        ELSE m

\* Whether the instruction at s.mi reads the target at the cursor.
ReadsCursor(f, s) ==
    LET op == ByteAt(f, s.mi)
    IN  op \in {ChQuest, ChBrace, ChPlus, ChMinus}

\* One pass of the dispatch loop of matcher::match from the locals s: the
\* locals after it, with ret = "go" when the loop goes on, "false" when the
\* call returns false, and "undefined" when the pass reads outside the program
\* buffer (beyond its terminator) or reads the target beyond the byte past its
\* end; hit tells whether a class operator consumed a code point.
Dispatch(f, t, pd, s) ==
    LET op == codePointFromUTF8(f, s.mi)
        m1 == Advance(f, s.mi)
        tx == targetCodePoint(t, pd, s.ti)
        go == [s EXCEPT !.mi = m1] @@ [ret |-> "go", hit |-> FALSE]
        stop == s @@ [ret |-> "false", hit |-> FALSE]
        InSet(c) == isascii(c) /\ testPackedBitsetAt(f, m1, c)
    IN  IF s.mi < 1 \/ s.mi > Len(f) + 1 \/ InstructionEnd(f, s.mi) > Len(f) + 1
           \/ (ReadsCursor(f, s) /\ s.ti > Len(t) + 1)
        THEN s @@ [ret |-> "undefined", hit |-> FALSE]
        ELSE IF op = ChHash THEN [go EXCEPT !.mi = m1 + LengthSize]
        ELSE IF op = ChQuest
        THEN [go EXCEPT !.anchored = TRUE, !.ti = targetAdvance(t, pd, s.ti)]
        ELSE IF op = ChStar THEN [go EXCEPT !.anchored = FALSE]
        ELSE IF op = ChOpen
        THEN [go EXCEPT !.invert = decodeModifierAt(f, m1) # 0,
                        !.next = m1 + 1 + LengthSize + decodeLengthAt(f, m1 + 1) + 1,
                        !.mi = m1 + 1 + LengthSize]
        ELSE IF op = ChBrace
        THEN IF s.anchored
             THEN IF ~InSet(tx) THEN stop
                  ELSE [go EXCEPT !.ti = targetAdvance(t, pd, s.ti), !.mi = m1 + 32,
                                  !.hit = TRUE]
             ELSE LET i == find_if(t, s.ti, {k \in 1..Len(t) : InSet(targetCodePoint(t, pd, k))})
                  IN  IF i = Len(t) + 1 THEN stop
                      ELSE [go EXCEPT !.ti = targetAdvance(t, pd, i), !.anchored = TRUE,
                                      !.mi = m1 + 32, !.hit = TRUE]
        ELSE IF op = ChPlus
        THEN LET p == codePointFromUTF8(f, m1)
                 m2 == Advance(f, m1)
                 Is(c) == (p = c) # s.invert
             IN  IF s.anchored
                 THEN IF Is(tx)
                      THEN [go EXCEPT !.ti = targetAdvance(t, pd, s.ti), !.mi = s.next,
                                      !.hit = TRUE]
                      ELSE [go EXCEPT !.mi = m2]
                 ELSE LET i == find_if(t, s.ti, {k \in 1..Len(t) : Is(targetCodePoint(t, pd, k))})
                      IN  IF i # Len(t) + 1
                          THEN [go EXCEPT !.ti = targetAdvance(t, pd, i),
                                          !.anchored = TRUE, !.mi = s.next, !.hit = TRUE]
                          ELSE [go EXCEPT !.mi = m2]
        ELSE IF op = ChMinus
        THEN LET p1 == codePointFromUTF8(f, m1)
                 m2 == Advance(f, m1)
                 p2 == codePointFromUTF8(f, m2)
                 m3 == Advance(f, m2)
                 In(c) == (p1 <= c /\ c <= p2) # s.invert
             IN  IF s.anchored
                 THEN IF In(tx)
                      THEN [go EXCEPT !.ti = targetAdvance(t, pd, s.ti), !.mi = s.next,
                                      !.hit = TRUE]
                      ELSE [go EXCEPT !.mi = m3]
                 ELSE LET i == find_if(t, s.ti, {k \in 1..Len(t) : In(targetCodePoint(t, pd, k))})
                      IN  IF i # Len(t) + 1
                          THEN [go EXCEPT !.ti = targetAdvance(t, pd, i),
                                          !.anchored = TRUE, !.mi = s.next, !.hit = TRUE]
                          ELSE [go EXCEPT !.mi = m3]
        ELSE IF op = ChClose THEN stop
        ELSE IF op = ChEq
        THEN LET n == decodeLengthAt(f, m1)
                 i == find(t, s.ti, f, m1 + LengthSize, n)
             IN  IF i = 0 \/ (s.anchored /\ i # s.ti) THEN stop
                 ELSE [go EXCEPT !.ti = i + n, !.anchored = TRUE,
                                 !.mi = m1 + LengthSize + n]
        ELSE go

\* What a match call whose behaviour is undefined may do.
UndefinedOutcomes == {"true", "false", "crash", "hang"}

(***************************************************************************)
(* Operations of a glob object.                                            *)
(***************************************************************************)
\* No second call is in progress; no helper function was applied.
NoCall ==
    [mpc |-> "idle", target |-> <<>>, pad |-> ChNul, mi |-> 0, ti |-> 0, anchored |-> TRUE,
     invert |-> FALSE, next |-> 0, last |-> 0, mres |-> "none"]

NoProbe == [fn |-> "none", arg |-> <<>>, val |-> <<>>]

Init ==
    /\ pattern = <<>>
    /\ fsm = <<>>
    /\ cstat = "fresh"
    /\ cwhat = <<>>
    /\ moved = FALSE
    /\ mpc = "idle"
    /\ target = <<>>
    /\ pad = ChNul
    /\ mi = 0
    /\ ti = 0
    /\ anchored = TRUE
    /\ invert = FALSE
    /\ next = 0
    /\ last = 0
    /\ mres = "none"
    /\ hits = 0
    /\ other = NoCall
    /\ probe = NoProbe

\* glob::compile(p)
Compile(p) ==
    /\ mpc = "idle"
    /\ \E r \in {compile(p, fsm)} :
           /\ pattern' = p
           /\ fsm' = r.fsm
           /\ cstat' = IF r.err = "none" THEN "ok" ELSE r.err
           /\ cwhat' = IF r.err # "none" /\ r.at # 0 THEN SubSeq(p, r.at, Len(p)) ELSE <<>>
           /\ moved' = (moved \/ Len(r.fsm) > AllowedMaxFSM)
    /\ UNCHANGED <<mpc, target, pad, mi, ti, anchored, invert, next, last, mres, hits>>
    /\ UNCHANGED xvars

\* glob::match(t) up to the first test of its loop; pd is the byte that lies
\* just past the end of t.  Once the buffer has moved, cbegin and cend read
\* storage that was freed.
MatchBegin(t, pd) ==
    /\ mpc = "idle"
    /\ target' = t
    /\ pad' = pd
    /\ IF ~validateUTF8String(t)
       THEN /\ mpc' = "done"
            /\ mres' = "InvalidUTF8Target"
            /\ UNCHANGED <<mi, ti, anchored, invert, next, last>>
       ELSE IF moved
       THEN /\ mpc' = "done"
            /\ mres' \in UndefinedOutcomes
            /\ UNCHANGED <<mi, ti, anchored, invert, next, last>>
       ELSE /\ mpc' = "run"
            /\ mres' = "none"
            /\ mi' = 1
            /\ ti' = 1
            /\ anchored' = TRUE
            /\ invert' = FALSE
            /\ next' = 0
            /\ last' = cend(fsm)
    /\ hits' = 0
    /\ UNCHANGED cvars
    /\ UNCHANGED xvars

\* One test of the loop condition of matcher::match and, unless the loop ends,
\* one pass of its body.
MatchStep ==
    /\ mpc = "run"
    /\ IF mi = last
       THEN /\ mpc' = "done"
            /\ mres' = IF ti = Len(target) + 1 \/ ~anchored THEN "true" ELSE "false"
            /\ UNCHANGED <<mi, ti, anchored, invert, next, hits>>
       ELSE \E r \in {Dispatch(fsm, target, pad, Locals(mi, ti, anchored, invert, next))} :
                /\ mi' = r.mi
                /\ ti' = r.ti
                /\ anchored' = r.anchored
                /\ invert' = r.invert
                /\ next' = r.next
                /\ hits' = (IF ByteAt(fsm, mi) \in {ChOpen, ChBrace} THEN 0 ELSE hits)
                           + (IF r.hit THEN 1 ELSE 0)
                /\ IF r.ret = "go" THEN mpc' = "run" /\ mres' = "none"
                   ELSE IF r.ret = "false" THEN mpc' = "done" /\ mres' = "false"
                   ELSE mpc' = "done" /\ mres' \in UndefinedOutcomes
    /\ UNCHANGED <<target, pad, last>>
    /\ UNCHANGED cvars
    /\ UNCHANGED xvars

\* The match call returns to its caller: its locals are gone.
MatchReturn ==
    /\ mpc = "done"
    /\ mpc' = "idle"
    /\ target' = <<>>
    /\ pad' = ChNul
    /\ mi' = 0
    /\ ti' = 0
    /\ anchored' = TRUE
    /\ invert' = FALSE
    /\ next' = 0
    /\ last' = 0
    /\ mres' = "none"
    /\ hits' = 0
    /\ UNCHANGED cvars
    /\ UNCHANGED xvars

(***************************************************************************)
(* Inputs.  Patterns and targets are built from code points.               *)
(***************************************************************************)
\* The UTF-8 text of a sequence of code points.
RECURSIVE Utf8(_)
Utf8(cps) == IF cps = <<>> THEN <<>> ELSE codePointToUTF8(Head(cps)) \o Utf8(Tail(cps))

\* The sequences of at most n elements of S.
SeqsUpTo(S, n) == UNION {[1..k -> S] : k \in 0..n}

\* n copies of the byte b.
Rep(b, n) == [k \in 1..n |-> b]

\* Bytes that may lie just past the end of a target: the terminator of a
\* std::string, or the next byte of a buffer the target is a view of.
PadBytes == {ChNul, 97}

\* A byte sequence that is not valid UTF-8 (a lead byte cut off by the end).
Truncated == <<195>>

\* Lifecycle of a glob object over the patterns Pats and the targets Tgts.
NextOn(Pats, Tgts) ==
    \/ \E p \in Pats : Compile(p)
    \/ \E t \in Tgts, pd \in PadBytes : MatchBegin(t, pd)
    \/ MatchStep
    \/ MatchReturn

\* A match call on a valid target has returned for a compiled pattern.
Matched == mpc = "done" /\ cstat = "ok" /\ mres # "InvalidUTF8Target"

\* A pattern that is a single literal run.
IsLiteral(p) == \A k \in 1..Len(p) : p[k] \notin {ChQuest, ChStar, ChOpen}

\* t ends with the bytes l.
EndsWith(t, l) == Len(l) <= Len(t) /\ SubSeq(t, Len(t) - Len(l) + 1, Len(t)) = l

(***************************************************************************)
(* Literal patterns, with and without a leading '*'.                       *)
(***************************************************************************)
MaxLit == 2
MaxTarget == 3
LongRun == 256

\* Code points of the literal runs and targets: a, b and e-acute.
LitCodePoints == {97, 98, 233}

Literals == {Utf8(cps) : cps \in SeqsUpTo(LitCodePoints, MaxLit)}

\* Runs whose length needs more than eight bits.
LongLiterals == {Rep(97, n) : n \in (LongRun - 1)..LongRun}

StarLiterals == {<<ChStar>> \o l : l \in (Literals \ {<<>>}) \cup LongLiterals}

LitPatterns == Literals \cup LongLiterals \cup StarLiterals \cup {Truncated}

LitTargets ==
    {Utf8(cps) : cps \in SeqsUpTo(LitCodePoints, MaxTarget)} \cup LongLiterals
        \cup {Truncated}

NextLit == NextOn(LitPatterns, LitTargets)

SpecLit == Init /\ [][NextLit]_vars

\* C1: a pattern that is a single literal run matches a valid target if and
\* only if the target is byte-for-byte equal to the pattern, whatever the
\* length of the run.
C1_LiteralMatchesEqual ==
    (Matched /\ IsLiteral(pattern)) => (mres = "true" <=> target = pattern)

\* C2: '*' followed by a non-empty literal L matches a valid target if and
\* only if the target ends with L.
C2_StarLiteralMatchesSuffix ==
    (Matched /\ Len(pattern) >= 2 /\ pattern[1] = ChStar /\ IsLiteral(Tail(pattern)))
        => (mres = "true" <=> EndsWith(target, Tail(pattern)))

\* C9: the empty pattern compiles to the empty buffer (no header), and the
\* match of that program returns true for the empty target and false for
\* every non-empty valid target.
C9_EmptyPattern ==
    /\ (cstat = "ok" /\ pattern = <<>>) => fsm = <<>>
    /\ (Matched /\ pattern = <<>>) => (mres = "true" <=> target = <<>>)

\* The empty pattern was compiled and a non-empty target was refused.
C9_Witness ==
    Matched /\ pattern = <<>> /\ fsm = <<>> /\ target # <<>> /\ mres = "false"

(***************************************************************************)
(* Bracket classes.  A class is described by its invert character (0 for   *)
(* none), whether ']' leads its members, its items (a member c is the item *)
(* <<c, c>>, a range the item <<lo, hi>>) and whether '-' ends its members. *)
(***************************************************************************)
MaxItems == 2
LongRanges == 28

\* Members: a ! ^ e-acute and U+1F600; ranges: b-d and U+4E2D..U+4E2F.
ClassSingles == {97, ChBang, ChCaret, 233, 128512}
ClassRanges == {<<98, 100>>, <<20013, 20015>>}
ClassItems == {<<c, c>> : c \in ClassSingles} \cup ClassRanges

\* Items in any order, no code point listed twice.
ItemSeqs ==
    {s \in SeqsUpTo(ClassItems, MaxItems) :
        \A i, j \in 1..Len(s) : i # j => (s[i][2] < s[j][1] \/ s[j][2] < s[i][1])}

\* The text of one item and of the items from the k-th on.
ItemText(it) ==
    IF it[1] = it[2] THEN codePointToUTF8(it[1])
    ELSE codePointToUTF8(it[1]) \o <<ChMinus>> \o codePointToUTF8(it[2])

RECURSIVE ItemsText(_, _)
ItemsText(items, k) ==
    IF k > Len(items) THEN <<>> ELSE ItemText(items[k]) \o ItemsText(items, k + 1)

ClassText(d) ==
    <<ChOpen>> \o (IF d.inv # 0 THEN <<d.inv>> ELSE <<>>)
        \o (IF d.lead THEN <<ChClose>> ELSE <<>>)
        \o ItemsText(d.items, 1)
        \o (IF d.dash THEN <<ChMinus>> ELSE <<>>) \o <<ChClose>>

\* Descriptions whose text reads as described: without an invert character
\* and a leading ']', the first member is not '!' or '^'.  A leading ']' and
\* a trailing '-' come with one item at most.
ShortDescs ==
    {d \in [inv : {0, ChBang, ChCaret}, lead : BOOLEAN, items : ItemSeqs, dash : BOOLEAN] :
        /\ (d.inv = 0 /\ ~d.lead /\ d.items # <<>>) => d.items[1][1] \notin {ChBang, ChCaret}
        /\ (d.lead \/ d.dash) => Len(d.items) <= 1}

TextOf == [d \in ShortDescs |-> ClassText(d)]

\* A class whose operators take more than 255 bytes: e-acute, LongRanges
\* ranges of two four-byte code points each (U+10000-U+10001, U+10004-U+10005,
\* ...), and e-grave.
LongBase == 65536

LongLo(k) == LongBase + 4 * (k - 1)

LongRangeText(k) ==
    codePointToUTF8(LongLo(k)) \o <<ChMinus>> \o codePointToUTF8(LongLo(k) + 1)

LongText ==
    <<ChOpen, 195, 169>>
        \o [i \in 1..(9 * LongRanges) |-> LongRangeText(((i - 1) \div 9) + 1)[((i - 1) % 9) + 1]]
        \o <<195, 168, ChClose>>

LongListed(c) ==
    c \in {233, 232} \/ \E k \in 1..LongRanges : LongLo(k) <= c /\ c <= LongLo(k) + 1

\* What the pattern documentation says of a class and a code point c.
Listed(d, c) ==
    \/ d.lead /\ c = ChClose
    \/ d.dash /\ c = ChMinus
    \/ \E k \in 1..Len(d.items) : d.items[k][1] <= c /\ c <= d.items[k][2]

Accepts(d, c) == Listed(d, c) # (d.inv # 0)

\* The class compiles to the bitmap form: all of its members are ASCII.
FastPath(d) == \A k \in 1..Len(d.items) : d.items[k][2] < 128

MemberCount(d) ==
    Len(d.items) + (IF d.lead THEN 1 ELSE 0) + (IF d.dash THEN 1 ELSE 0)

\* A special character is a member by its position.
HasSpecial(d) ==
    d.lead \/ d.dash \/ \E k \in 1..Len(d.items) : d.items[k][1] \in {ChBang, ChCaret}

\* Classes that are followed by '*' or by another class in the patterns.
Followed ==
    {TextOf[d] : d \in {e \in ShortDescs : ~e.lead /\ ~e.dash /\ e.inv \in {0, ChCaret}
                                             /\ Len(e.items) = 1}}
        \cup {LongText}

ClassPatterns ==
    {TextOf[d] : d \in ShortDescs} \cup Followed
        \cup {k \o <<ChStar>> : k \in Followed}
        \cup {k \o <<ChOpen, 97, ChClose>> : k \in Followed}
        \cup {<<ChQuest>>, <<ChQuest, ChStar>>, <<ChQuest, 97>>, Truncated}

TargetCodePoints ==
    {97, 99, 101, ChBang, ChCaret, ChClose, ChMinus, 232, 233, 234, 20014, 20016,
     128512, 128513, LongBase, LongBase + 2}

ClassTargets ==
    {codePointToUTF8(c) : c \in TargetCodePoints}
        \cup {<<>>, Utf8(<<97, 97>>), Utf8(<<233, 97>>), Utf8(<<233, LongBase>>),
              Truncated}

NextClass == NextOn(ClassPatterns, ClassTargets)

SpecClass == Init /\ [][NextClass]_vars

\* C3: a class consumes at most one code point of the target, whatever its
\* number of members and its representation, also when '*' or another class
\* follows it: between two class headers the class operators advance the
\* cursor over one code point at most.
C3_ClassConsumesOneCodePoint == hits <= 1

\* The class description d is the whole pattern, or (with star) the pattern
\* is that class and a trailing '*'; the code point c is the whole target.
ClassOnly(d) == pattern = TextOf[d]

ClassThenStar(d) == pattern = TextOf[d] \o <<ChStar>>

TargetIs(c) == target = codePointToUTF8(c)

\* C4: an inverted class of the general path with two or more members or
\* ranges matches the code point c if and only if c is none of its members
\* and lies in none of its ranges.
C4_InvertedGeneralClass ==
    Matched =>
        \A d \in ShortDescs :
            (ClassOnly(d) /\ d.inv # 0 /\ ~FastPath(d) /\ MemberCount(d) >= 2) =>
                \A c \in TargetCodePoints :
                    TargetIs(c) => (mres = "true" <=> ~Listed(d, c))

\* C5: an inverted class whose members are all ASCII matches every code point
\* that is not a listed member, the non-ASCII ones included.
C5_InvertedFastClass ==
    Matched =>
        \A d \in ShortDescs :
            (ClassOnly(d) /\ d.inv # 0 /\ FastPath(d)) =>
                \A c \in TargetCodePoints :
                    (TargetIs(c) /\ ~Listed(d, c)) => mres = "true"

\* C6: with ']' first, '-' last, and '!' or '^' not first, the special
\* characters are members: the class accepts (inverted: rejects) exactly
\* those characters and its other members.
C6_SpecialMembers ==
    Matched =>
        \A d \in ShortDescs :
            (ClassOnly(d) /\ HasSpecial(d)) =>
                \A c \in TargetCodePoints :
                    TargetIs(c) => (mres = "true" <=> Accepts(d, c))

\* C7: a class of the general path that is not inverted matches the code
\* point c at the cursor if and only if c is a member or lies in a range; the
\* match goes on behind the class then (here: to the end of the pattern or to
\* a trailing '*'), and fails when no operator accepts c.
C7_GeneralClassMembership ==
    Matched =>
        /\ \A d \in ShortDescs :
            ((ClassOnly(d) \/ ClassThenStar(d)) /\ d.inv = 0 /\ ~FastPath(d)) =>
                \A c \in TargetCodePoints :
                    TargetIs(c) => (mres = "true" <=> Listed(d, c))
        /\ pattern \in {LongText, LongText \o <<ChStar>>} =>
                \A c \in TargetCodePoints :
                    TargetIs(c) => (mres = "true" <=> LongListed(c))

\* C8: at the end of the target a '?' or an anchored class makes the match
\* fail, whatever follows in the pattern, and the cursor never moves past the
\* end of the target.
C8_EndOfTarget ==
    /\ mpc # "idle" => ti <= Len(target) + 1
    /\ (Matched /\ pattern # <<>> /\ pattern[1] \in {ChQuest, ChOpen} /\ target = <<>>)
        => mres = "false"

(***************************************************************************)
(* Patterns whose programs are about as large as the limit allows: a run   *)
(* of 'a' followed by a short tail of known compiled size.                 *)
(***************************************************************************)
SizeSlack == 2

\* Tails and the bytes they compile to: nothing, '?', '*?', a class of the
\* bitmap form (opcode and 32 digits), a class of the general form (opcode,
\* modifier, length, one operator of a two-byte member, sentinel), and '*'
\* with a literal of one byte (opcode, length, byte).
SizeTails ==
    {[text |-> <<>>, size |-> 0],
     [text |-> <<ChQuest>>, size |-> 1],
     [text |-> <<ChStar, ChQuest>>, size |-> 2],
     [text |-> <<ChOpen, 98, ChClose>>, size |-> 1 + 32],
     [text |-> <<ChOpen, 195, 169, ChClose>>, size |-> 1 + 1 + LengthSize + 3 + 1],
     [text |-> <<ChStar, ChOpen, 98, ChClose>>, size |-> 1 + 1 + 32]}

\* The header, the literal (opcode, length, n bytes) and the tail.
SizeOf(n, tl) == (1 + LengthSize) + (1 + LengthSize + n) + tl.size

\* The run lengths that bring the program of a tail to the limit, give or
\* take SizeSlack bytes.
SizeRuns(tl) ==
    {n \in 1..AllowedMaxFSM :
        /\ SizeOf(n, tl) >= AllowedMaxFSM - SizeSlack
        /\ SizeOf(n, tl) <= AllowedMaxFSM + SizeSlack}

SizeDescs == UNION {{<<n, tl>> : n \in SizeRuns(tl)} : tl \in SizeTails}

SizeText == [sd \in SizeDescs |-> Rep(97, sd[1]) \o sd[2].text]

SizePatterns == {SizeText[sd] : sd \in SizeDescs} \cup {<<>>, <<97>>, Truncated}

SizeTargets == {<<>>, <<97>>, <<97, 97>>, Truncated}

NextSize == NextOn(SizePatterns, SizeTargets)

SpecSize == Init /\ [][NextSize]_vars

\* C10: a program that compile returns has at most AllowedMaxFSM bytes; a
\* pattern whose program would be larger makes compile throw PatternTooLarge,
\* and a program of exactly AllowedMaxFSM bytes is accepted.
C10_SizeLimit ==
    /\ cstat = "ok" => Len(fsm) <= AllowedMaxFSM
    /\ \A sd \in SizeDescs :
        (cstat # "fresh" /\ pattern = SizeText[sd])
        => IF SizeOf(sd[1], sd[2]) > AllowedMaxFSM
           THEN cstat = "PatternTooLarge"
           ELSE cstat = "ok" /\ Len(fsm) = SizeOf(sd[1], sd[2])

\* A program of exactly AllowedMaxFSM bytes was returned.
C10_Witness == cstat = "ok" /\ Len(fsm) = AllowedMaxFSM

(***************************************************************************)
(* The length field on its own: the compiler writes the two digits of n    *)
(* into the field of a literal, the matcher decodes them.                  *)
(***************************************************************************)
\* emitLengthAt(lenPos, n) on the buffer that holds the opcode of a literal
\* and the padding of its length field, applied once in a behaviour.
EmitLength(n) ==
    /\ probe = NoProbe
    /\ probe' = [fn |-> "emitLengthAt", arg |-> n,
                 val |-> emitLengthAt(emitPadding(<<ChEq>>), 2, n)]
    /\ UNCHANGED <<pattern, fsm, cstat, cwhat, moved, mpc, target, pad, mi, ti, anchored,
                   invert, next, last, mres, hits, other>>

\* Every length a field is asked to hold: 0 to AllowedMaxFSM.
NextLength == \E n \in 0..AllowedMaxFSM : EmitLength(n)

SpecLength == Init /\ [][NextLength]_vars

\* C11: the two digits that emitLengthAt writes for n, 0 <= n <= 4095, are
\* decoded by decodeLengthAt as n.
C11_LengthRoundTrip ==
    probe.fn = "emitLengthAt" => decodeLengthAt(probe.val, 2) = probe.arg

(***************************************************************************)
(* Compile calls that fail: classes without a terminator, text that is not *)
(* UTF-8, programs over the limit, between compile calls that succeed.     *)
(***************************************************************************)
\* Texts that open a class, with and without its terminator: "[", "[!", "[^",
\* "[]", "[!]", "[^]", "[a", "[a-", "[]a", "[e-acute", "[^e-acute-" and
\* "[a]", "[]]", "[!]]", "[^]a]", "[e-acute]", "[[]".
ErrOpeners ==
    {<<ChOpen>>, <<ChOpen, ChBang>>, <<ChOpen, ChCaret>>, <<ChOpen, ChClose>>,
     <<ChOpen, ChBang, ChClose>>, <<ChOpen, ChCaret, ChClose>>, <<ChOpen, 97>>,
     <<ChOpen, 97, ChMinus>>, <<ChOpen, ChClose, 97>>, <<ChOpen, 195, 169>>,
     <<ChOpen, ChCaret, 195, 169, ChMinus>>}

ErrClasses ==
    {<<ChOpen, 97, ChClose>>, <<ChOpen, ChClose, ChClose>>,
     <<ChOpen, ChBang, ChClose, ChClose>>, <<ChOpen, ChCaret, ChClose, 97, ChClose>>,
     <<ChOpen, 195, 169, ChClose>>, <<ChOpen, ChOpen, ChClose>>}

\* What stands before and behind them: nothing, a literal, '?', '*', a
\* class, ']'.
ErrParts == {<<>>, <<97>>, <<ChQuest>>, <<ChStar>>, <<ChOpen, 98, ChClose>>, <<ChClose>>}

\* The largest literal run whose program fits with a class opened behind it,
\* and the run that is one byte too long.
ErrLong ==
    {Rep(97, AllowedMaxFSM - 2 * (1 + LengthSize)) \o <<ChOpen>>,
     Rep(97, AllowedMaxFSM - 2 * (1 + LengthSize) + 1),
     Rep(97, AllowedMaxFSM - 2 * (1 + LengthSize) + 1) \o <<ChOpen>>}

\* "[A-Z][0-9][^0-9*", the pattern of the test program that throws.
ErrSample == <<ChOpen, 65, ChMinus, 90, ChClose, ChOpen, 48, ChMinus, 57, ChClose,
               ChOpen, ChCaret, 48, ChMinus, 57, ChStar>>

ErrPatterns ==
    {a \o o : a \in ErrParts, o \in ErrOpeners \cup ErrClasses}
        \cup {o \o b : o \in ErrOpeners, b \in ErrParts}
        \cup ErrLong
        \cup {ErrSample, <<>>, <<97>>, Truncated, <<ChOpen>> \o Truncated,
              <<ChOpen, 97, ChClose>> \o Truncated}

ErrTargets == {<<>>, <<97>>, <<ChClose>>, Truncated}

NextErr == NextOn(ErrPatterns, ErrTargets)

SpecErr == Init /\ [][NextErr]_vars

\* The pattern documentation read element by element from position i: the
\* position of the first '[' that has no ']' behind its invert character and
\* its leading ']', or 0 when every class is terminated.
RECURSIVE firstUnterminated(_, _)
firstUnterminated(p, i) ==
    IF i > Len(p) THEN 0
    ELSE IF p[i] # ChOpen
    THEN IF Positions(p, i, {ChOpen}) = {} THEN 0
         ELSE firstUnterminated(p, SetMin(Positions(p, i, {ChOpen})))
    ELSE LET j == IF ByteAt(p, i + 1) \in {ChBang, ChCaret} THEN i + 2 ELSE i + 1
             k == IF ByteAt(p, j) = ChClose THEN j + 1 ELSE j
             closes == {c \in k..Len(p) : p[c] = ChClose}
         IN  IF closes = {} THEN i ELSE firstUnterminated(p, SetMin(closes) + 1)

\* The position in the pattern where the quoted suffix cwhat starts.
WhatAt == Len(pattern) - Len(cwhat) + 1

\* C12: compile throws MissingClassTerminator exactly when the scan of the
\* elements reaches a '[' without a terminator ("[]" and "[!]" included) and
\* no earlier element failed, and its message quotes the pattern from that
\* '[' on.
C12_MissingClassTerminator ==
    (cstat # "fresh" /\ validateUTF8String(pattern)) =>
        LET at == firstUnterminated(pattern, 1)
        IN  IF cstat = "PatternTooLarge" THEN at = 0 \/ WhatAt < at
            ELSE /\ cstat = "MissingClassTerminator" <=> at # 0
                 /\ at # 0 => cwhat = SubSeq(pattern, at, Len(pattern))

\* compile threw at an unterminated class that earlier elements precede.
C12_Witness ==
    /\ cstat = "MissingClassTerminator"
    /\ cwhat # pattern
    /\ cwhat = <<ChOpen, ChBang, ChClose>>

\* A buffer that starts with the header opcode and the padding of a length
\* field that was never backfilled.
UnfilledHeader(f) == Len(f) >= 1 + LengthSize /\ f[1] = ChHash /\ f[2] = ChPad /\ f[3] = ChPad

\* C13: after a compile call that threw, the buffer machine() returns is
\* empty or a complete program, never a header with an unfilled length field
\* and the elements emitted before the failure.
C13_NoPartialProgram ==
    cstat \in {"InvalidUTF8Pattern", "MissingClassTerminator", "PatternTooLarge"}
        => (fsm = <<>> \/ ~UnfilledHeader(fsm))

\* C15: the program of a successful compile(p) is the program that compile(p)
\* leaves in a fresh instance, whatever compile calls came before.
C15_ProgramDependsOnPattern ==
    cstat = "ok" => fsm = compile(pattern, <<>>).fsm

\* A compile call succeeded on an instance on which an earlier call had
\* failed with a program over the limit.
C15_Witness == cstat = "ok" /\ moved /\ fsm # <<>>

(***************************************************************************)
(* Validation of patterns and targets: texts over a few bytes of each kind *)
(* (ASCII, following byte, lead bytes of two, three and four bytes, a byte *)
(* that never occurs in UTF-8), each compiled on a fresh object.           *)
(***************************************************************************)
MaxBytes == 3

\* 'a', A0, C0 (lead of an overlong form), ED (lead of the surrogates with
\* A0 behind it), F0 and F8.
ValBytes == {97, 160, 192, 237, 240, 248}

\* Texts of four bytes and more: a complete unit of four bytes and units the
\* end cuts off.
ValLong ==
    {<<240, 160, 160, 160>>, <<240, 160, 160, 97>>, <<97, 240, 160, 160>>,
     <<240, 160, 160, 160, 97>>, <<237, 160, 160, 192, 160>>, <<237, 160, 160, 237, 160>>}

ValTexts == SeqsUpTo(ValBytes, MaxBytes) \cup ValLong

\* The patterns whose objects are asked to match: the empty one, a literal,
\* a byte that is no UTF-8, a surrogate.
ValCompiled == {<<>>, <<97>>, <<248>>, <<237, 160, 160>>}

NextValidate ==
    \/ \E p \in ValTexts : cstat = "fresh" /\ Compile(p)
    \/ \E t \in ValTexts, pd \in PadBytes : pattern \in ValCompiled /\ MatchBegin(t, pd)
    \/ MatchStep
    \/ MatchReturn

SpecValidate == Init /\ [][NextValidate]_vars

\* The text from position i on splits into units: a lead byte of declared
\* length n, 1 <= n <= 4, and exactly n - 1 bytes 10xxxxxx behind it, none of
\* them beyond the end of the text.
RECURSIVE IsUnits(_, _)
IsUnits(v, i) ==
    \/ i > Len(v)
    \/ \E n \in 1..4 :
        /\ sizeOfUTF8CodePoint(v[i]) = n
        /\ i + n - 1 <= Len(v)
        /\ \A k \in 1..(n - 1) : v[i + k] \div 64 = 2
        /\ IsUnits(v, i + n)

\* C14: validate is true of a text if and only if the text splits into
\* units, whatever code points they encode; compile throws InvalidUTF8Pattern
\* and match throws InvalidUTF8Target exactly when validate is false.  (The
\* loop of the code and its closed form agree.)
C14_Validate ==
    /\ validateFrom(pattern, 1) = IsUnits(pattern, 1)
    /\ validateFrom(target, 1) = IsUnits(target, 1)
    /\ validateUTF8String(pattern) = validateFrom(pattern, 1)
    /\ validateUTF8String(target) = validateFrom(target, 1)
    /\ cstat # "fresh" => (cstat = "InvalidUTF8Pattern" <=> ~IsUnits(pattern, 1))
    /\ mpc # "idle" => (mres = "InvalidUTF8Target" <=> ~IsUnits(target, 1))

\* A surrogate in its three-byte form was compiled, and a target that the
\* end cuts off was refused.
C14_Witness ==
    /\ cstat = "ok"
    /\ pattern = <<237, 160, 160>>
    /\ mres = "InvalidUTF8Target"
    /\ target = <<240, 160, 160>>

(***************************************************************************)
(* Two match calls on the same object, step by step in any order.  The     *)
(* first call is the one of MatchBegin, MatchStep and MatchReturn; the     *)
(* second keeps its target, its locals and its result in other.            *)
(***************************************************************************)
\* The second call up to the first test of its loop.
beginCall(f, mv, t, pd) ==
    IF ~validateUTF8String(t)
    THEN {[NoCall EXCEPT !.mpc = "done", !.target = t, !.pad = pd,
                         !.mres = "InvalidUTF8Target"]}
    ELSE IF mv
    THEN {[NoCall EXCEPT !.mpc = "done", !.target = t, !.pad = pd, !.mres = o] :
            o \in UndefinedOutcomes}
    ELSE {[mpc |-> "run", target |-> t, pad |-> pd, mi |-> 1, ti |-> 1, anchored |-> TRUE,
           invert |-> FALSE, next |-> 0, last |-> cend(f), mres |-> "none"]}

\* Locals that are not the call's own: the cursor is the one of the call
\* that runs beside it.
callLocalsShared(c, beside) ==
    Locals(c.mi, IF beside.mi # 0 THEN beside.ti ELSE c.ti, c.anchored, c.invert, c.next)

\* The locals of the call c (automatic variables of matcher::match); beside
\* are the locals of the call that runs beside it.
callLocals(c, beside) == Locals(c.mi, c.ti, c.anchored, c.invert, c.next)

\* The call c after the pass of the loop that gave r.
callAfter(c, r) ==
    IF r.ret = "go"
    THEN {[c EXCEPT !.mi = r.mi, !.ti = r.ti, !.anchored = r.anchored,
                    !.invert = r.invert, !.next = r.next]}
    ELSE IF r.ret = "false" THEN {[c EXCEPT !.mpc = "done", !.mres = "false"]}
    ELSE {[c EXCEPT !.mpc = "done", !.mres = o] : o \in UndefinedOutcomes}

OtherBegin(t, pd) ==
    /\ other.mpc = "idle"
    /\ other' \in beginCall(fsm, moved, t, pd)
    /\ UNCHANGED <<pattern, fsm, cstat, cwhat, moved, mpc, target, pad, mi, ti, anchored,
                   invert, next, last, mres, hits, probe>>

OtherStep ==
    /\ other.mpc = "run"
    /\ IF other.mi = other.last
       THEN other' = [other EXCEPT !.mpc = "done",
                         !.mres = IF other.ti = Len(other.target) + 1 \/ ~other.anchored
                                  THEN "true" ELSE "false"]
       ELSE \E r \in {Dispatch(fsm, other.target, other.pad,
                               callLocals(other, Locals(mi, ti, anchored, invert, next)))} :
                other' \in callAfter(other, r)
    /\ UNCHANGED <<pattern, fsm, cstat, cwhat, moved, mpc, target, pad, mi, ti, anchored,
                   invert, next, last, mres, hits, probe>>

OtherReturn ==
    /\ other.mpc = "done"
    /\ other' = NoCall
    /\ UNCHANGED <<pattern, fsm, cstat, cwhat, moved, mpc, target, pad, mi, ti, anchored,
                   invert, next, last, mres, hits, probe>>

\* What a match call that runs on its own from the locals s returns; l is
\* cend().  runNext goes on from the result r of a pass of the loop.
RECURSIVE runFrom(_, _, _, _, _)
runNext(f, t, pd, r, l) ==
    IF r.ret = "go"
    THEN runFrom(f, t, pd, Locals(r.mi, r.ti, r.anchored, r.invert, r.next), l)
    ELSE IF r.ret = "false" THEN {"false"}
    ELSE UndefinedOutcomes

runFrom(f, t, pd, s, l) ==
    IF s.mi = l THEN {IF s.ti = Len(t) + 1 \/ ~s.anchored THEN "true" ELSE "false"}
    ELSE runNext(f, t, pd, Dispatch(f, t, pd, s), l)

matchOutcomes(f, mv, t, pd) ==
    IF ~validateUTF8String(t) THEN {"InvalidUTF8Target"}
    ELSE IF mv THEN UndefinedOutcomes
    ELSE runFrom(f, t, pd, Locals(1, 1, TRUE, FALSE, 0), cend(f))

\* Patterns: "a", "*a", "a?", "?b", "[b]*", "[^a]", "*[e-acute]".
ParPatterns ==
    {<<97>>, <<ChStar, 97>>, <<97, ChQuest>>, <<ChQuest, 98>>, <<ChOpen, 98, ChClose, ChStar>>,
     <<ChOpen, ChCaret, 97, ChClose>>, <<ChStar, ChOpen, 195, 169, ChClose>>}

\* Targets: "", "a", "b", "ab", "ba", "a e-acute", and a text that is not
\* UTF-8.
ParTargets == {<<>>, <<97>>, <<98>>, <<97, 98>>, <<98, 97>>, <<97, 195, 169>>, Truncated}

\* compile is not called while a match call is reading the program.
NextPar ==
    \/ \E p \in ParPatterns : other.mpc = "idle" /\ Compile(p)
    \/ \E t \in ParTargets, pd \in PadBytes : cstat = "ok" /\ MatchBegin(t, pd)
    \/ MatchStep
    \/ MatchReturn
    \/ \E t \in ParTargets, pd \in PadBytes : cstat = "ok" /\ OtherBegin(t, pd)
    \/ OtherStep
    \/ OtherReturn

SpecPar == Init /\ [][NextPar]_vars

\* Each of the two calls, once it has returned, has returned what a call on
\* its own returns for the program, its target and the byte behind it.
IsolatedResults ==
    /\ mpc = "done" => mres \in matchOutcomes(fsm, moved, target, pad)
    /\ other.mpc = "done" => other.mres \in matchOutcomes(fsm, moved, other.target, other.pad)

\* A step taken while a match call is in progress leaves the program alone,
\* and a call in its loop keeps its target.
MatchOnlyReads ==
    /\ (mpc # "idle" \/ other.mpc # "idle") => fsm' = fsm
    /\ mpc = "run" => target' = target
    /\ other.mpc = "run" => other'.target = other.target

\* C16: match changes neither the program nor the target, and each call has
\* its own cursor and anchored flag: match calls on the same program, run in
\* any interleaving of their steps, each return what a single call returns.
C16_MatchCallsIndependent == []IsolatedResults /\ [][MatchOnlyReads]_vars

\* Two calls on different targets have both returned, with different results.
C16_Witness ==
    /\ mpc = "done" /\ other.mpc = "done"
    /\ target = <<98, 97>> /\ other.target = <<97, 98>>
    /\ mres = "true" /\ other.mres = "false"

(***************************************************************************)
(* Classes of ASCII members in which a character may be listed more than   *)
(* once, each compiled on a fresh object.                                  *)
(***************************************************************************)
MaxListed == 3

\* 'a', a-c and c-e: 'a' and 'c' can be listed twice and three times.
FastItems == {<<97, 97>>, <<97, 99>>, <<99, 101>>}

FastDescs ==
    {d \in [inv : {0, ChBang, ChCaret}, lead : BOOLEAN,
            items : SeqsUpTo(FastItems, MaxListed), dash : BOOLEAN] :
        d.items # <<>> \/ d.lead}

FastText == [d \in FastDescs |-> ClassText(d)]

FastTargets == {<<97>>, <<98>>, <<102>>, <<ChClose>>}

NextFast ==
    \/ \E d \in FastDescs : cstat = "fresh" /\ Compile(FastText[d])
    \/ \E t \in FastTargets, pd \in PadBytes : MatchBegin(t, pd)
    \/ MatchStep
    \/ MatchReturn

SpecFast == Init /\ [][NextFast]_vars

\* C17: in the bitmap of a class of ASCII members, the bit of every listed
\* member (also of one that is listed more than once, or by a range and by
\* itself) is 1 when the class is not inverted and 0 when it is, and the bit
\* of every other ASCII character is the opposite.
C17_BitmapMembership ==
    cstat = "ok" =>
        \A d \in FastDescs :
            pattern = FastText[d] =>
                \A c \in 0..127 :
                    testPackedBitsetAt(fsm, 1 + LengthSize + 2, c) <=> Accepts(d, c)

(***************************************************************************)
(* The codec on its own: a code point is encoded, the bytes are validated, *)
(* decoded and stepped over.                                               *)
(***************************************************************************)
\* Code points are put together from their bits 18 and up (CodeTops) and
\* three groups of six bits (CodeGroups), which gives every boundary between
\* the forms: 7F/80, 7FF/800, FFFF/10000, and 1FFFFF.
CodeTops == 0..7

CodeGroups == {0, 1, 2, 15, 16, 31, 32, 62, 63}

CodePoints ==
    {((t * 64 + g1) * 64 + g2) * 64 + g3 : t \in CodeTops, g1, g2, g3 \in CodeGroups}

\* codePointToUTF8(c), applied once in a behaviour.
Encode(c) ==
    /\ probe = NoProbe
    /\ probe' = [fn |-> "codePointToUTF8", arg |-> c, val |-> codePointToUTF8(c)]
    /\ UNCHANGED <<pattern, fsm, cstat, cwhat, moved, mpc, target, pad, mi, ti, anchored,
                   invert, next, last, mres, hits, other>>

NextCodec == \E c \in CodePoints : Encode(c)

SpecCodec == Init /\ [][NextCodec]_vars

\* The number of bytes of the form that holds c.
FormSize(c) == IF c < 128 THEN 1 ELSE IF c < 2048 THEN 2 ELSE IF c < 65536 THEN 3 ELSE 4

\* C18: for a code point c up to 1FFFFF, the encoder yields 1, 2, 3 or 4
\* bytes (c below 80, 800, 10000, and from 10000 on); the bytes pass
\* validation, the size declared by the lead byte is their number, decoding
\* them returns c, and the iterator steps over exactly that many bytes.
C18_CodecRoundTrip ==
    probe.fn = "codePointToUTF8" =>
        /\ Len(probe.val) = FormSize(probe.arg)
        /\ validateFrom(probe.val, 1)
        /\ validateUTF8String(probe.val)
        /\ sizeOfUTF8CodePoint(probe.val[1]) = Len(probe.val)
        /\ codePointFromUTF8(probe.val, 1) = probe.arg
        /\ Advance(probe.val, 1) = 1 + Len(probe.val)

\* The first code point of the four-byte form was encoded.
C18_Witness ==
    probe.fn = "codePointToUTF8" /\ probe.arg = 65536 /\ probe.val = <<240, 144, 128, 128>>

(***************************************************************************)
(* Patterns put together from a few elements, each compiled on a fresh     *)
(* object: the literal "a", '?', '*', and the classes [^a] and [b].        *)
(***************************************************************************)
MaxElems == 3

WildElems ==
    {<<97>>, <<ChQuest>>, <<ChStar>>, <<ChOpen, ChCaret, 97, ChClose>>,
     <<ChOpen, 98, ChClose>>}

RECURSIVE Concat(_)
Concat(ss) == IF ss = <<>> THEN <<>> ELSE Head(ss) \o Concat(Tail(ss))

WildPatterns == {Concat(es) : es \in SeqsUpTo(WildElems, MaxElems)}

WildTargets == SeqsUpTo({97, 98}, MaxTarget)

NextWild ==
    \/ \E p \in WildPatterns : cstat = "fresh" /\ Compile(p)
    \/ \E t \in WildTargets, pd \in PadBytes : MatchBegin(t, pd)
    \/ MatchStep
    \/ MatchReturn

SpecWild == Init /\ [][NextWild]_vars

\* The pattern p matches the target t, a string of its own (the terminator
\* lies behind it), on a fresh object.
matchesAlone(r, t) ==
    r.err = "none" /\ matchOutcomes(r.fsm, FALSE, t, ChNul) = {"true"}

\* C19: if P matches T, then P followed by '*' matches T followed by any S:
\* when the pattern is P and '*', every part T of the target that P matches
\* on its own makes the match of the whole target succeed.
C19_TrailingStarAbsorbs ==
    (Matched /\ pattern # <<>> /\ pattern[Len(pattern)] = ChStar) =>
        \A k \in 0..Len(target) :
            matchesAlone(compile(SubSeq(pattern, 1, Len(pattern) - 1), <<>>),
                         SubSeq(target, 1, k))
                => mres = "true"

\* The bytes of the literal whose instruction is at position m of f.
literalAt(f, m) == SubSeq(f, m + 1 + LengthSize, m + LengthSize + decodeLengthAt(f, m + 1))

\* The positions at or after i where the bytes l occur in t.
occurrences(t, i, l) ==
    {k \in i..(Len(t) + 1 - Len(l)) : SubSeq(t, k, k + Len(l) - 1) = l}

\* What the step of a literal of bytes l does, given where l occurs at or
\* after the cursor.
literalStepOn(l, occ) ==
    IF anchored
    THEN IF ti \in occ
         THEN mpc' = "run" /\ ti' = ti + Len(l) /\ anchored' = TRUE
         ELSE mpc' = "done" /\ mres' = "false"
    ELSE IF occ = {}
         THEN mpc' = "done" /\ mres' = "false"
         ELSE mpc' = "run" /\ ti' = SetMin(occ) + Len(l) /\ anchored' = TRUE

\* A step that dispatches a literal: anchored, the literal has to lie at the
\* cursor; not anchored, the cursor moves behind its first occurrence at or
\* after the cursor and the call is anchored; the call returns false when
\* there is no such occurrence.
LiteralStep ==
    (mpc = "run" /\ mi # last /\ ByteAt(fsm, mi) = ChEq) =>
        literalStepOn(literalAt(fsm, mi), occurrences(target, ti, literalAt(fsm, mi)))

\* "*a[b]": once the class has refused the code point behind the first 'a',
\* no later 'a' is tried.
NoBacktracking ==
    (Matched /\ pattern = <<ChStar, 97, ChOpen, 98, ChClose>>) =>
        (mres = "true" <=>
            \E k \in 1..Len(target) :
                /\ target[k] = 97
                /\ \A j \in 1..(k - 1) : target[j] # 97
                /\ SubSeq(target, k + 1, Len(target)) = <<98>>)

RECURSIVE operatorStarts(_, _)
operatorStarts(f, m) ==
    IF m > Len(f) \/ ByteAt(f, m) \notin {ChPlus, ChMinus} THEN {m}
    ELSE {m} \cup operatorStarts(f, InstructionEnd(f, m) + 1)

\* The positions at which the element loop of compiler::compile emits the
\* opcodes of the elements from pi on, f being the buffer so far and r the
\* result of compiling the element at pi; behind the header of a general
\* class come its operators and its sentinel.
RECURSIVE elementStarts(_, _, _)
startsWith(pat, pi, f, r) ==
    {Len(f) + 1}
        \cup (IF r.err = "none" /\ r.fsm[Len(f) + 1] = ChOpen
              THEN operatorStarts(r.fsm, Len(f) + 1 + 1 + 1 + LengthSize)
              ELSE {})
        \cup (IF r.err = "none" THEN elementStarts(pat, pi + r.incr, r.fsm) ELSE {})

elementStarts(pat, pi, f) ==
    IF pi > Len(pat) THEN {}
    ELSE startsWith(pat, pi, f, compileElement(pat, pi, f))

\* The instruction boundaries of the program of pattern p: the header and
\* what the element loop emits behind it.
programStarts(p) == {1} \cup elementStarts(p, 1, emitPadding(<<ChHash>>))

\* The length fields of the program f, whose instructions start at S: that
\* of the header holds the number of bytes behind the header, that of a class
\* header at s the number of bytes from its first operator up to its sentinel
\* (the last of the positions ops).
FieldsAreSpans(f, S) ==
    /\ decodeLengthAt(f, 2) = Len(f) - (1 + LengthSize)
    /\ \A s \in S : f[s] = ChOpen =>
            \E ops \in {operatorStarts(f, s + 1 + 1 + LengthSize)} :
                \E m \in ops :
                    /\ \A k \in ops : k <= m
                    /\ decodeLengthAt(f, s + 2) = m - (s + 1 + 1 + LengthSize)

\* The instruction pointer of the match call in progress rests on one of the
\* boundaries S of f or at the end of f, where the loop is to end.
PointerOnBoundary(f, S) ==
    /\ mpc = "run" => mi \in S \cup {Len(f) + 1}
    /\ (mpc \in {"run", "done"} /\ mres # "InvalidUTF8Target") => last = Len(f) + 1

\* C21: in a program that compile returned, the length field of the header
\* as the matcher decodes it is the size of the program less its header, and
\* the length field of every class of the general form is the size of its
\* operators; during a match call the instruction pointer rests on an
\* instruction boundary, never lies behind the end of the program, and the
\* loop ends with the pointer at the end of the program.
C21_LengthFieldsAndBoundaries ==
    (cstat = "ok" /\ fsm # <<>>) =>
        /\ FieldsAreSpans(fsm, programStarts(pattern))
        /\ PointerOnBoundary(fsm, programStarts(pattern))

(***************************************************************************)
(* A class behind '*': the patterns are a literal prefix (none or "a"),    *)
(* '*' and one class, each compiled on a fresh object; the targets are     *)
(* texts of a few code points.                                             *)
(***************************************************************************)
\* Classes that are not inverted and list one or two members or ranges.
FloatDescs ==
    {[inv |-> 0, lead |-> FALSE, items |-> s, dash |-> FALSE] :
        s \in {x \in ItemSeqs : x # <<>> /\ x[1][1] \notin {ChBang, ChCaret}}}

FloatPatterns == [pre : {<<>>, <<97>>}, d : FloatDescs]

FloatText(fp) == fp.pre \o <<ChStar>> \o ClassText(fp.d)

FloatTargets == {Utf8(cps) : cps \in SeqsUpTo({97, 99, 233, 20014}, MaxTarget)}

NextFloat ==
    \/ \E fp \in FloatPatterns : cstat = "fresh" /\ Compile(FloatText(fp))
    \/ \E t \in FloatTargets, pd \in PadBytes : MatchBegin(t, pd)
    \/ MatchStep
    \/ MatchReturn

SpecFloat == Init /\ [][NextFloat]_vars

\* The positions of t from i on at which a code point starts that the class
\* d accepts.
acceptedAt(d, t, i) ==
    {k \in i..Len(t) : ~IsFollowing(t[k]) /\ Accepts(d, codePointFromUTF8(t, k))}

\* What a class behind '*' does, given the positions acc of the code points
\* it accepts at or after the cursor: once it has consumed a code point the
\* cursor is just behind the first of them and the call is anchored; the call
\* returns true only when that code point ends the target.
floatingClassOn(acc) ==
    /\ (mpc = "run" /\ hits = 1) =>
            /\ anchored
            /\ acc # {}
            /\ \A k \in acc : (\A j \in acc : k <= j) => ti = Advance(target, k)
    /\ (Matched /\ mres # "false") =>
            /\ mres = "true"
            /\ acc # {}
            /\ \A k \in acc : (\A j \in acc : k <= j) => Advance(target, k) = Len(target) + 1

\* C22: not anchored, a class moves the cursor to just behind the first code
\* point, at or after the cursor, that the class as a whole accepts, and sets
\* anchored; the match fails when there is none.  The general form and the
\* bitmap form do the same, so that the cursor and the result depend on the
\* set of code points the class accepts only.
C22_FloatingClass ==
    cstat = "ok" =>
        \A fp \in FloatPatterns :
            (pattern = FloatText(fp) /\ Len(fp.pre) <= Len(target)
                /\ \A k \in 1..Len(fp.pre) : target[k] = fp.pre[k]) =>
                floatingClassOn(acceptedAt(fp.d, target, Len(fp.pre) + 1))

(***************************************************************************)
(* The program pointer of the matcher of a glob object, under the patterns *)
(* whose programs are about as large as the limit allows.                  *)
(***************************************************************************)
\* C23: whatever compile calls were made on a glob object, those that threw
\* PatternTooLarge with more than AllowedMaxFSM bytes emitted included, the
\* pointer that the matcher took at construction designates the buffer of the
\* compiler (the buffer has not moved), and a match call returns what the
\* program of the latest compile call returns for its target.
C23_MatcherSeesProgram ==
    /\ ~moved
    /\ mpc = "done" => mres \in matchOutcomes(fsm, FALSE, target, pad)

(***************************************************************************)
(* The packed bitset on its own: the compiler emits the 32 digits of a set *)
(* of bits behind the opcode of a class, the matcher tests single bits.    *)
(***************************************************************************)
\* Sets of bits: the runs lo..hi that the ranges of a class flip, and for
\* every group of four bits each of its sixteen values, the bits of the other
\* groups being all clear or all set.
BitSets ==
    {lo..hi : lo, hi \in 0..127}
        \cup {{4 * g + j : j \in n} \cup (IF full THEN (0..127) \ ((4 * g)..(4 * g + 3)) ELSE {}) :
                g \in 0..31, n \in SUBSET (0..3), full \in BOOLEAN}

\* emitPackedBitset(b) behind emit('{'), applied once in a behaviour.
EmitBitset(b) ==
    /\ probe = NoProbe
    /\ probe' = [fn |-> "emitPackedBitset", arg |-> b,
                 val |-> emitPackedBitset(<<ChBrace>>, b)]
    /\ UNCHANGED <<pattern, fsm, cstat, cwhat, moved, mpc, target, pad, mi, ti, anchored,
                   invert, next, last, mres, hits, other>>

NextBits == \E b \in BitSets : EmitBitset(b)

SpecBits == Init /\ [][NextBits]_vars

\* C24: the 32 digits emitted for a set b of bits are lowercase hex digits,
\* and for every k from 0 to 127 the test of bit k on them (the digit of bit
\* 127 first, the values 8, 4, 2, 1 for the bits 3, 2, 1, 0 of a group) is
\* true if and only if k is in b.
C24_BitmapRoundTrip ==
    probe.fn = "emitPackedBitset" =>
        /\ Len(probe.val) = 1 + 32
        /\ \A i \in 2..(1 + 32) : probe.val[i] \in (48..57) \cup (97..102)
        /\ \A k \in 0..127 : testPackedBitsetAt(probe.val, 2, k) <=> k \in probe.arg

\* The set of all bits but 127, 125 and 124 was emitted: the first digit is
\* '4', the last is 'f', and the tests of the bits 126 and 127 differ.
C24_Witness ==
    /\ probe.fn = "emitPackedBitset"
    /\ probe.arg = (0..123) \cup {126}
    /\ probe.val[2] = 52 /\ probe.val[1 + 32] = 102
    /\ testPackedBitsetAt(probe.val, 2, 126) /\ ~testPackedBitsetAt(probe.val, 2, 127)

====
